---- MODULE Spec2Model ----
(***************************************************************************)
(* The document store reader of tantivy (src/store/reader.rs) and the      *)
(* byte-range source it reads through (src/directory/read_only_source.rs). *)
(*                                                                         *)
(* Three specifications share the variables:                               *)
(*   Spec     - reader handles over a store file built from documents:     *)
(*              get and clone;                                             *)
(*   SpecOpen - from_source / split_source / space_usage on files with     *)
(*              arbitrary footers;                                         *)
(*   SpecSrc  - slice, seek and read on ReadOnlySource values.             *)
(***************************************************************************)
EXTENDS Integers, Sequences, FiniteSets, TLC

VARIABLES
    buffer,          \* the shared immutable bytes (BoxedData) every source views
    overflow_checks, \* build profile: TRUE = arithmetic overflow panics, FALSE = it wraps
    docs,            \* the documents the store file was built from (ghost)
    corrupt,         \* 0, or the number of the block whose payload was damaged (ghost)
    footer,          \* the offset and max_doc the file's footer was written with (ghost)
    readers,         \* handle -> StoreReader value
    last,            \* the last StoreReader call and what it returned
    srcs,            \* name -> ReadOnlySource value
    out              \* the last ReadOnlySource call and what it returned

vars == <<buffer, overflow_checks, docs, corrupt, footer, readers, last, srcs, out>>

(***************************************************************************)
(* Bounds                                                                  *)
(***************************************************************************)
MaxDocs == 2
BlockSize == 2
NumHandles == 2
MaxBody == 2
MaxBuf == 2

\* usize::MAX, the "no block cached" sentinel of from_source.  TLC integers
\* are 32 bits wide: the sentinel is the largest of them, which like
\* usize::MAX is no offset into any store of the model.
UsizeMax == 2147483647

\* size_of::<u64>() + size_of::<u32>()
FooterLen == 12

Min(a, b) == IF a <= b THEN a ELSE b

(***************************************************************************)
(* Fixed-width little-endian integers (BinarySerializable for u32, u64)    *)
(***************************************************************************)
RECURSIVE le_bytes(_, _)
le_bytes(v, width) ==
    IF width = 0 THEN <<>> ELSE <<v % 256>> \o le_bytes(v \div 256, width - 1)

RECURSIVE le_value(_)
le_value(bytes) ==
    IF bytes = <<>> THEN 0 ELSE bytes[1] + 256 * le_value(Tail(bytes))

(***************************************************************************)
(* VInt: 7 bits per byte, low bits first, the last byte carries the stop   *)
(* bit (128).                                                              *)
(***************************************************************************)
RECURSIVE vint_serialize(_)
vint_serialize(v) ==
    IF v < 128 THEN <<v + 128>> ELSE <<v % 128>> \o vint_serialize(v \div 128)

\* [ok, val, rest]: fails when the bytes end before a stop bit is seen.
RECURSIVE vint_deserialize(_)
vint_deserialize(cursor) ==
    IF cursor = <<>> THEN [ok |-> FALSE, val |-> 0, rest |-> <<>>]
    ELSE IF cursor[1] >= 128
         THEN [ok |-> TRUE, val |-> cursor[1] - 128, rest |-> Tail(cursor)]
         ELSE LET r == vint_deserialize(Tail(cursor))
              IN  [ok |-> r.ok, val |-> cursor[1] + 128 * r.val, rest |-> r.rest]

(***************************************************************************)
(* Document codec: the number of field values, then one byte per value.    *)
(***************************************************************************)
doc_serialize(doc) == vint_serialize(Len(doc)) \o doc

doc_deserialize(cursor) ==
    LET n == vint_deserialize(cursor)
    IN  IF ~n.ok \/ n.val > Len(n.rest)
        THEN [ok |-> FALSE, doc |-> <<>>]
        ELSE [ok |-> TRUE, doc |-> SubSeq(n.rest, 1, n.val)]

(***************************************************************************)
(* Block codec: every byte complemented, followed by a check byte.         *)
(***************************************************************************)
RECURSIVE byte_sum(_)
byte_sum(bytes) == IF bytes = <<>> THEN 0 ELSE (bytes[1] + byte_sum(Tail(bytes))) % 256

compress(bytes) == [i \in 1..Len(bytes) |-> 255 - bytes[i]] \o <<byte_sum(bytes)>>

\* [ok, outs]: on success the one decompressed content; on failure the
\* contents the output buffer may be left with (nothing, or the payload
\* decoded before the check byte was found wrong).
decompress(compressed) ==
    IF compressed = <<>> THEN [ok |-> FALSE, outs |-> {<<>>}]
    ELSE LET n == Len(compressed) - 1
             plain == [i \in 1..n |-> 255 - compressed[i]]
         IN  IF byte_sum(plain) = compressed[n + 1]
             THEN [ok |-> TRUE, outs |-> {plain}]
             ELSE [ok |-> FALSE, outs |-> {<<>>, plain}]

(***************************************************************************)
(* Block index: a serialized list of (key, value) entries in key order.    *)
(***************************************************************************)
RECURSIVE skiplist_serialize(_)
skiplist_serialize(entries) ==
    IF entries = <<>> THEN <<>>
    ELSE vint_serialize(entries[1][1]) \o vint_serialize(entries[1][2])
         \o skiplist_serialize(Tail(entries))

\* SkipList::seek(target): the last entry whose key is below the target,
\* so that seek(doc_id + 1) is the entry with the greatest key <= doc_id.
RECURSIVE skiplist_seek(_, _, _)
skiplist_seek(bytes, target, found) ==
    LET k == vint_deserialize(bytes)
        v == vint_deserialize(k.rest)
    IN  IF ~k.ok \/ ~v.ok \/ k.val >= target THEN found
        ELSE skiplist_seek(v.rest, target, [some |-> TRUE, key |-> k.val, val |-> v.val])

(***************************************************************************)
(* Store writer: documents are appended length-prefixed to the current     *)
(* block; a block longer than BlockSize is compressed and written as       *)
(* u32 length + compressed bytes, and the index gets the entry (documents  *)
(* written so far, bytes written so far).  Closing writes the last block,  *)
(* the index and the footer.                                               *)
(***************************************************************************)
write_block(w) ==
    LET c == compress(w.block)
        data == w.data \o le_bytes(Len(c), 4) \o c
    IN  [data |-> data, block |-> <<>>, doc |-> w.doc,
         entries |-> Append(w.entries, <<w.doc, Len(data)>>)]

store(w, doc, threshold) ==
    LET s == doc_serialize(doc)
        w1 == [w EXCEPT !.block = w.block \o vint_serialize(Len(s)) \o s,
                        !.doc = w.doc + 1]
    IN  IF Len(w1.block) > threshold THEN write_block(w1) ELSE w1

RECURSIVE store_all(_, _, _)
store_all(w, ds, threshold) ==
    IF ds = <<>> THEN w ELSE store_all(store(w, Head(ds), threshold), Tail(ds), threshold)

close(w) ==
    LET w1 == IF w.block # <<>> THEN write_block(w) ELSE w
    IN  [file |-> w1.data \o skiplist_serialize(w1.entries)
                  \o le_bytes(Len(w1.data), 8) \o le_bytes(w1.doc, 4),
         entries |-> w1.entries]

build_store(ds, threshold) ==
    close(store_all([data |-> <<>>, block |-> <<>>, doc |-> 0, entries |-> <<>>],
                    ds, threshold))

\* The file with the check byte of block number c (1-based) damaged.
damage(built, c) ==
    IF c = 0 THEN built.file
    ELSE LET p == built.entries[c][2]
         IN  [built.file EXCEPT ![p] = (built.file[p] + 1) % 256]

(***************************************************************************)
(* ReadOnlySource: a window [start, stop) of the shared buffer with a      *)
(* cursor.  `pos` stands for both the field pos and the position of the    *)
(* inner Cursor<BoxedData>: every method that sets one sets the other to   *)
(* the same value.                                                         *)
(***************************************************************************)
NoSource == [start |-> 0, stop |-> 0, pos |-> 0]

\* ReadOnlySource::new / From<BoxedData>
new_source == [start |-> 0, stop |-> Len(buffer), pos |-> 0]

\* usize subtraction and addition as a build without overflow checks
\* computes them (wrapping); UsizeMax stands for usize::MAX.
wrapping_sub(a, b) == IF a >= b THEN a - b ELSE (UsizeMax - (b - a)) + 1

wrapping_add(a, b) == IF b <= UsizeMax - a THEN a + b ELSE (a - (UsizeMax - b)) - 1

\* HasLen::len: stop - start, wrapped when start is past stop (callers model
\* the panic of a build with overflow checks).
len(s) == wrapping_sub(s.stop, s.start)

\* ReadOnlySource::as_slice
as_slice(s) == SubSeq(buffer, s.start + 1, s.stop)

\* slice taking its arguments as offsets into the buffer, not the window.
slice_absolute(s, start, stop) ==
    IF start > stop \/ (s.start > s.stop /\ overflow_checks) \/ stop > len(s)
    THEN [kind |-> "panic", src |-> NoSource]
    ELSE [kind |-> "ok", src |-> [start |-> start, stop |-> stop, pos |-> start]]

\* slice with its arguments clamped to the window instead of asserted.
slice_clamped(s, start, stop) ==
    LET e == Min(stop, len(s))
        b == Min(start, e)
    IN  [kind |-> "ok",
         src |-> [start |-> s.start + b, stop |-> s.start + e, pos |-> s.start + b]]

\* ReadOnlySource::slice: both assertions panic, and so does self.len()
\* with overflow checks when the window's start is past its stop.
slice(s, start, stop) ==
    IF start > stop \/ (s.start > s.stop /\ overflow_checks) \/ stop > len(s)
    THEN [kind |-> "panic", src |-> NoSource]
    ELSE [kind |-> "ok",
          src |-> [start |-> wrapping_add(s.start, start),
                   stop |-> wrapping_add(s.start, stop),
                   pos |-> wrapping_add(s.start, start)]]

slice_from(s, from_offset) == slice(s, from_offset, len(s))

slice_to(s, to_offset) == slice(s, 0, to_offset)

\* impl Clone for ReadOnlySource
clone_source(s) == slice_from(s, 0)

\* Cursor<BoxedData>::read of at most max bytes at position p.
cursor_read(p, max) ==
    LET from == Min(p, Len(buffer))
        n == Min(max, Len(buffer) - from)
    IN  SubSeq(buffer, from + 1, from + n)

\* impl Read for ReadOnlySource, for a buffer of buf_len bytes.  stop - pos
\* underflows when the cursor is past stop: a panic with overflow checks,
\* a wrapped (huge) value without, so that max is buf_len.
read(s, buf_len) ==
    IF s.pos > s.stop /\ overflow_checks
    THEN [kind |-> "panic", bytes |-> <<>>, src |-> s]
    ELSE LET max == IF s.pos > s.stop THEN buf_len ELSE Min(buf_len, s.stop - s.pos)
             bytes == cursor_read(s.pos, max)
         IN  [kind |-> "ok", bytes |-> bytes,
              src |-> [s EXCEPT !.pos = s.pos + Len(bytes)]]

\* Read::read_exact: reads until the buffer is full; a read of 0 bytes
\* before that is an UnexpectedEof error.
RECURSIVE read_exact(_, _)
read_exact(s, n) ==
    IF n = 0 THEN [kind |-> "ok", bytes |-> <<>>, src |-> s]
    ELSE LET r == read(s, n)
         IN  IF r.kind # "ok" THEN r
             ELSE IF r.bytes = <<>> THEN [kind |-> "err", bytes |-> <<>>, src |-> r.src]
             ELSE LET t == read_exact(r.src, n - Len(r.bytes))
                  IN  [kind |-> t.kind, bytes |-> r.bytes \o t.bytes, src |-> t.src]

\* impl Seek for ReadOnlySource.  whence is "Start", "End" or "Current".
\*   Start(n)   -> the cursor seeks Start(n + start);
\*   End(n)     -> n > 0 fails try_into, -n > stop fails checked_sub (both
\*                 panic); otherwise the cursor seeks End(stop + n), which
\*                 is Len(buffer) + stop + n;
\*   Current(n) -> the cursor seeks Current(n), an error below 0.
seek(s, whence, n) ==
    CASE whence = "Start" ->
           [kind |-> "ok", ret |-> n + s.start, src |-> [s EXCEPT !.pos = n + s.start]]
      [] whence = "End" ->
           IF n > 0 \/ -n > s.stop
           THEN [kind |-> "panic", ret |-> 0, src |-> s]
           ELSE LET p == Len(buffer) + (s.stop + n)
                IN  [kind |-> "ok", ret |-> p, src |-> [s EXCEPT !.pos = p]]
      [] whence = "Current" ->
           IF s.pos + n < 0
           THEN [kind |-> "err", ret |-> 0, src |-> s]
           ELSE [kind |-> "ok", ret |-> s.pos + n, src |-> [s EXCEPT !.pos = s.pos + n]]

\* Read::read_to_end: reads until a read returns 0 bytes.
RECURSIVE read_to_end(_)
read_to_end(s) ==
    LET r == read(s, 32)
    IN  IF r.kind # "ok" \/ r.bytes = <<>> THEN r
        ELSE LET t == read_to_end(r.src)
             IN  [kind |-> t.kind, bytes |-> r.bytes \o t.bytes, src |-> t.src]

\* ReadOnlySource::read_all
read_all(s) ==
    LET r == read_to_end(s)
    IN  IF r.kind # "ok" THEN r
        ELSE [kind |-> "ok", bytes |-> r.bytes, src |-> seek(r.src, "Start", 0).src]

\* ReadOnlySource::read_after_skip; current_location is what seek returns,
\* the cursor's absolute position.
read_after_skip(s, size) ==
    LET c == seek(s, "Current", 0)
        current_location == c.ret
        r == read_to_end(seek(c.src, "Start", size).src)
    IN  IF r.kind # "ok" THEN r
        ELSE [kind |-> "ok", bytes |-> r.bytes,
              src |-> seek(r.src, "Start", current_location).src]

\* ReadOnlySource::get (the name get is the StoreReader's below).  Every ?
\* returns early and leaves the cursor where the failed step put it;
\* current_location is what seek returns, the cursor's absolute position.
source_get(s, idx) ==
    LET c == seek(s, "Current", 0)
        current_location == c.ret
        t == seek(c.src, "Start", idx)
        e == read_exact(t.src, 1)
    IN  IF e.kind # "ok" THEN [kind |-> e.kind, bytes |-> <<>>, src |-> e.src]
        ELSE [kind |-> "ok", bytes |-> e.bytes,
              src |-> seek(e.src, "Start", current_location).src]

\* ReadOnlySource::split
split(s, addr) ==
    LET left == slice(s, 0, addr)
        right == slice_from(s, addr)
    IN  [kind |-> IF left.kind = "ok" /\ right.kind = "ok" THEN "ok" ELSE "panic",
         left |-> left.src, right |-> right.src]

(***************************************************************************)
(* AdvancingReadOnlySource(ReadOnlySource): the operators take and give    *)
(* the wrapped ReadOnlySource.                                             *)
(***************************************************************************)
\* AdvancingReadOnlySource::advance; seek(Start(0)) cannot fail.
advance(s, clip_len) == seek([s EXCEPT !.start = s.start + clip_len], "Start", 0).src

\* impl Read for AdvancingReadOnlySource
advancing_read(s, buf_len) ==
    LET r == read(s, buf_len)
    IN  IF r.kind # "ok" THEN r
        ELSE [kind |-> "ok", bytes |-> r.bytes, src |-> advance(r.src, Len(r.bytes))]

\* AdvancingReadOnlySource::read_without_advancing
read_without_advancing(s, buf_len) ==
    LET c == seek(s, "Current", 0)
        current_location == c.ret
        r == read(c.src, buf_len)
    IN  IF r.kind # "ok" THEN r
        ELSE [kind |-> "ok", bytes |-> r.bytes,
              src |-> seek(r.src, "Start", current_location).src]

\* AdvancingReadOnlySource::is_empty
is_empty(s) == s.start = s.stop

\* impl Clone for AdvancingReadOnlySource
advancing_clone(s) == slice_from(s, 0)

\* AdvancingReadOnlySource::get: expect panics on the error of get
advancing_get(s, idx) ==
    LET r == source_get(s, idx)
    IN  [r EXCEPT !.kind = IF r.kind = "ok" THEN "ok" ELSE "panic"]

(***************************************************************************)
(* StoreReader                                                             *)
(***************************************************************************)
NoReader ==
    [live |-> "none", data |-> NoSource, offset_index_source |-> NoSource,
     current_block_offset |-> UsizeMax, current_block |-> <<>>, max_doc |-> 0]

\* What a panic of from_source leaves: no reader is made.
DeadReader == [NoReader EXCEPT !.live = "dead"]

\* split_source with the index region running to the end of the file, the
\* footer included.
split_source_with_footer(s) ==
    LET data_len == len(s)
        footer_offset == data_len - FooterLen
        serialized_offset == slice(s, footer_offset, data_len)
        o == read_exact(serialized_offset.src, 8)
        offset == le_value(o.bytes)
        m == read_exact(o.src, 4)
        d == slice(s, 0, offset)
        i == slice(s, offset, data_len)
    IN  IF data_len < FooterLen \/ serialized_offset.kind # "ok"
           \/ o.kind # "ok" \/ m.kind # "ok" \/ d.kind # "ok" \/ i.kind # "ok"
        THEN [kind |-> "panic", data |-> NoSource, index |-> NoSource, max_doc |-> 0]
        ELSE [kind |-> "ok", data |-> d.src, index |-> i.src,
              max_doc |-> le_value(m.bytes)]

\* split_source.  data_len - 12 underflows for a source shorter than the
\* footer: a panic with overflow checks; without, footer_offset wraps to a
\* value above data_len and slice's first assertion panics.
split_source(s) ==
    LET data_len == len(s)
        footer_offset == data_len - FooterLen
        serialized_offset == slice(s, footer_offset, data_len)
        o == read_exact(serialized_offset.src, 8)
        offset == le_value(o.bytes)
        m == read_exact(o.src, 4)
        d == slice(s, 0, offset)
        i == slice(s, offset, footer_offset)
    IN  IF data_len < FooterLen \/ serialized_offset.kind # "ok"
           \/ o.kind # "ok" \/ m.kind # "ok" \/ d.kind # "ok" \/ i.kind # "ok"
        THEN [kind |-> "panic", data |-> NoSource, index |-> NoSource, max_doc |-> 0]
        ELSE [kind |-> "ok", data |-> d.src, index |-> i.src,
              max_doc |-> le_value(m.bytes)]

\* StoreReader::from_source
from_source(s) ==
    LET p == split_source(s)
    IN  IF p.kind # "ok" THEN DeadReader
        ELSE [live |-> "open", data |-> p.data, offset_index_source |-> p.index,
              current_block_offset |-> UsizeMax, current_block |-> <<>>,
              max_doc |-> p.max_doc]

\* StoreReader::space_usage
space_usage(r) == [data |-> len(r.data), index |-> len(r.offset_index_source)]

\* StoreReader::block_offset (with block_index: the skip list is read from a
\* clone of offset_index_source).
block_offset(r, doc_id) ==
    LET e == skiplist_seek(as_slice(clone_source(r.offset_index_source).src),
                           doc_id + 1, [some |-> FALSE, key |-> 0, val |-> 0])
    IN  IF e.some THEN <<e.key, e.val>> ELSE <<0, 0>>

\* compressed_block reading at the start of the data region, whatever addr.
compressed_block_at_start(r, addr) ==
    LET buffer_slice == slice_from(r.data, 0)
        l == read_exact(buffer_slice.src, 4)
        block_len == le_value(l.bytes)
        b == read_exact(l.src, block_len)
    IN  IF buffer_slice.kind # "ok" \/ l.kind # "ok" \/ b.kind # "ok"
        THEN [kind |-> "panic", block |-> <<>>]
        ELSE [kind |-> "ok", block |-> b.bytes]

\* StoreReader::compressed_block: every failure is a panic (slice's
\* assertions, the two expect calls).
compressed_block(r, addr) ==
    LET buffer_slice == slice_from(r.data, addr)
        l == read_exact(buffer_slice.src, 4)
        block_len == le_value(l.bytes)
        b == read_exact(l.src, block_len)
    IN  IF buffer_slice.kind # "ok" \/ l.kind # "ok" \/ b.kind # "ok"
        THEN [kind |-> "panic", block |-> <<>>]
        ELSE [kind |-> "ok", block |-> b.bytes]

\* read_block without the test of current_block_offset: every call
\* decompresses.
read_block_uncached(r, block_offset_) ==
    LET cleared == [r EXCEPT !.current_block = <<>>]
        c == compressed_block(cleared, block_offset_)
        d == decompress(c.block)
    IN  IF c.kind # "ok"
        THEN {[kind |-> "panic", decompressions |-> 0, r |-> cleared]}
        ELSE IF ~d.ok
             THEN {[kind |-> "err", decompressions |-> 1,
                    r |-> [cleared EXCEPT !.current_block = o]]
                   : o \in d.outs}
             ELSE {[kind |-> "ok", decompressions |-> 1,
                    r |-> [cleared EXCEPT !.current_block = o,
                                          !.current_block_offset = block_offset_]]
                   : o \in d.outs}

\* StoreReader::read_block: the set of [kind, decompressions, r] it can end
\* with; decompressions counts the calls of the decompressor.  A panic of
\* compressed_block unwinds through &self and leaves the reader with
\* current_block cleared and current_block_offset as it was.
read_block(r, block_offset_) ==
    IF block_offset_ # r.current_block_offset
    THEN LET cleared == [r EXCEPT !.current_block = <<>>]
             c == compressed_block(cleared, block_offset_)
             d == decompress(c.block)
         IN  IF c.kind # "ok"
             THEN {[kind |-> "panic", decompressions |-> 0, r |-> cleared]}
             ELSE IF ~d.ok
                  THEN {[kind |-> "err", decompressions |-> 1,
                         r |-> [cleared EXCEPT !.current_block = o]]
                        : o \in d.outs}
                  ELSE {[kind |-> "ok", decompressions |-> 1,
                         r |-> [cleared EXCEPT !.current_block = o,
                                               !.current_block_offset = block_offset_]]
                        : o \in d.outs}
    ELSE {[kind |-> "ok", decompressions |-> 0, r |-> r]}

\* The loop of get: skip n length-prefixed documents.
RECURSIVE skip_docs(_, _)
skip_docs(cursor, n) ==
    IF n <= 0 THEN [kind |-> "ok", cursor |-> cursor]
    ELSE LET l == vint_deserialize(cursor)
         IN  IF ~l.ok THEN [kind |-> "err", cursor |-> <<>>]
             ELSE IF l.val > Len(l.rest) THEN [kind |-> "panic", cursor |-> <<>>]
             ELSE skip_docs(SubSeq(l.rest, l.val + 1, Len(l.rest)), n - 1)

\* The rest of get once the block is in current_block.
scan_block(current_block, first_doc_id, doc_id) ==
    LET s == skip_docs(current_block, doc_id - first_doc_id)
        l == vint_deserialize(s.cursor)
        d == doc_deserialize(SubSeq(l.rest, 1, l.val))
    IN  IF s.kind # "ok" THEN [kind |-> s.kind, doc |-> <<>>]
        ELSE IF ~l.ok THEN [kind |-> "err", doc |-> <<>>]
        ELSE IF l.val > Len(l.rest) THEN [kind |-> "panic", doc |-> <<>>]
        ELSE IF ~d.ok THEN [kind |-> "err", doc |-> <<>>]
        ELSE [kind |-> "ok", doc |-> d.doc]

\* StoreReader::get: the set of [kind, doc, hit, decompressions, r] it can
\* end with; hit tells that read_block found block_offset in
\* current_block_offset, decompressions counts the decompressor's calls.
get(r, doc_id) ==
    LET bo == block_offset(r, doc_id)
        hit == bo[2] = r.current_block_offset
    IN  { IF b.kind # "ok"
          THEN [kind |-> b.kind, doc |-> <<>>, hit |-> hit,
                decompressions |-> b.decompressions, r |-> b.r]
          ELSE LET s == scan_block(b.r.current_block, bo[1], doc_id)
               IN  [kind |-> s.kind, doc |-> s.doc, hit |-> hit,
                    decompressions |-> b.decompressions,
                    r |-> b.r]
          : b \in read_block(r, bo[2]) }

\* #[derive(Clone)] for StoreReader: the sources are cloned, the cache
\* cells are copied.
clone_reader(r) ==
    [r EXCEPT !.data = clone_source(r.data).src,
              !.offset_index_source = clone_source(r.offset_index_source).src]

(***************************************************************************)
(* Spec: reader handles over a store file                                  *)
(***************************************************************************)
Handles == 1..NumHandles

\* The documents stored: one without field values, one with a field value.
Documents == {<<>>, <<1>>}

DocLists == UNION {[1..n -> Documents] : n \in 0..MaxDocs}

NoCall ==
    [op |-> "none", h |-> 0, doc_id |-> 0, block |-> 0, consecutive |-> FALSE,
     hit |-> FALSE, kind |-> "ok", doc |-> <<>>, data |-> 0, index |-> 0,
     decompressions |-> 0, evicted |-> FALSE]

NoOut ==
    [op |-> "none", src |-> 0, kind |-> "ok", bytes |-> <<>>, ret |-> 0,
     arg |-> 0, target |-> 0, rejected |-> FALSE]

Init ==
    /\ \E ds \in DocLists, c \in 0..MaxDocs :
          LET built == build_store(ds, BlockSize)
          IN  /\ c <= Len(built.entries)
              /\ buffer = damage(built, c)
              /\ docs = ds
              /\ corrupt = c
              /\ footer = [offset |-> IF built.entries = <<>> THEN 0
                                      ELSE built.entries[Len(built.entries)][2],
                           max_doc |-> Len(ds)]
    /\ overflow_checks = TRUE
    /\ readers = [h \in Handles |-> IF h = 1 THEN from_source(new_source) ELSE NoReader]
    /\ last = [NoCall EXCEPT !.op = "open", !.h = 1]
    /\ srcs = <<>>
    /\ out = NoOut

\* get with the cache cells shared by all open handles instead of copied
\* by clone.
GetSharedCache(h, doc_id) ==
    /\ readers[h].live = "open"
    /\ \E o \in get(readers[h], doc_id) :
          /\ readers' = [x \in Handles |->
                           IF x = h THEN o.r
                           ELSE IF readers[x].live = "open" /\ o.r.live = "open"
                                THEN [readers[x] EXCEPT
                                        !.current_block = o.r.current_block,
                                        !.current_block_offset = o.r.current_block_offset]
                                ELSE readers[x]]
          /\ last' = [NoCall EXCEPT !.op = "get", !.h = h, !.doc_id = doc_id,
                        !.block = block_offset(readers[h], doc_id)[2],
                        !.consecutive = /\ last.op = "get"
                                        /\ last.h = h
                                        /\ last.block = block_offset(readers[h], doc_id)[2],
                        !.hit = o.hit, !.kind = o.kind, !.doc = o.doc,
                        !.decompressions = o.decompressions,
                        !.evicted = /\ o.decompressions > 0
                                    /\ readers[h].current_block_offset # UsizeMax]
    /\ UNCHANGED <<buffer, overflow_checks, docs, corrupt, footer, srcs, out>>

\* handle h calls get(doc_id)
Get(h, doc_id) ==
    /\ readers[h].live = "open"
    /\ \E o \in get(readers[h], doc_id) :
          /\ readers' = [readers EXCEPT ![h] = o.r]
          /\ last' = [NoCall EXCEPT !.op = "get", !.h = h, !.doc_id = doc_id,
                        !.block = block_offset(readers[h], doc_id)[2],
                        !.consecutive = /\ last.op = "get"
                                        /\ last.h = h
                                        /\ last.block = block_offset(readers[h], doc_id)[2],
                        !.hit = o.hit, !.kind = o.kind, !.doc = o.doc,
                        !.decompressions = o.decompressions,
                        !.evicted = /\ o.decompressions > 0
                                    /\ readers[h].current_block_offset # UsizeMax]
    /\ UNCHANGED <<buffer, overflow_checks, docs, corrupt, footer, srcs, out>>

\* handle h2 is made by cloning handle h
CloneReader(h, h2) ==
    /\ readers[h].live = "open"
    /\ readers[h2].live = "none"
    /\ readers' = [readers EXCEPT ![h2] = clone_reader(readers[h])]
    /\ last' = [NoCall EXCEPT !.op = "clone", !.h = h2]
    /\ UNCHANGED <<buffer, overflow_checks, docs, corrupt, footer, srcs, out>>

Next ==
    \/ \E h \in Handles, doc_id \in 0..MaxDocs : Get(h, doc_id)
    \/ \E h \in Handles, h2 \in Handles : CloneReader(h, h2)

Spec == Init /\ [][Next]_vars

\* SpecVisit: the handles visit the stored documents only.
Visit(h, doc_id) == doc_id < footer.max_doc /\ Get(h, doc_id)

NextVisit ==
    \/ \E h \in Handles, doc_id \in 0..MaxDocs : Visit(h, doc_id)
    \/ \E h \in Handles, h2 \in Handles : CloneReader(h, h2)

SpecVisit == Init /\ [][NextVisit]_vars

\* What get(doc_id) returns on a freshly opened reader.
fresh_results(doc_id) ==
    {[kind |-> o.kind, doc |-> o.doc] : o \in get(from_source(new_source), doc_id)}

\* What handle h would get for doc_id in the current state.
results(h, doc_id) ==
    {[kind |-> o.kind, doc |-> o.doc] : o \in get(readers[h], doc_id)}

(***************************************************************************)
(* Claims about get                                                        *)
(***************************************************************************)

\* C1: on a store built from documents d_0..d_{n-1}, a get(i) with i < n
\* returns d_i, whatever get calls were made on the reader before.
RoundTrip ==
    (corrupt = 0 /\ last.op = "get" /\ last.doc_id < Len(docs))
        => (last.kind = "ok" /\ last.doc = docs[last.doc_id + 1])

\* C2: whenever current_block_offset is not the sentinel, current_block is
\* the decompressed content of the block at current_block_offset.
CacheValid ==
    \A h \in Handles :
        (readers[h].live = "open" /\ readers[h].current_block_offset # UsizeMax)
            => LET c == compressed_block(readers[h], readers[h].current_block_offset)
               IN  /\ c.kind = "ok"
                   /\ decompress(c.block).ok
                   /\ readers[h].current_block \in decompress(c.block).outs

\* C3: after a get that returned an error, the handle answers every get as
\* a freshly opened reader would.
FailureIsolation ==
    (last.op = "get" /\ last.kind = "err")
        => \A doc_id \in 0..MaxDocs : results(last.h, doc_id) = fresh_results(doc_id)

\* C4: a get into the block of the previous get, served from the cache,
\* returns what a freshly opened reader returns for that document.
CacheTransparency ==
    (last.op = "get" /\ last.consecutive /\ last.hit)
        => [kind |-> last.kind, doc |-> last.doc] \in fresh_results(last.doc_id)

\* C5: with the handles visiting the stored documents in any order, a get
\* on one handle leaves every other handle's reader (its
\* current_block_offset and current_block) unchanged, and on a store built
\* from documents every get returns its document, under every interleaving
\* of the handles' calls.
ConcurrentReadSafety ==
    [][last'.op = "get" =>
          /\ \A h \in Handles \ {last'.h} : readers'[h] = readers[h]
          /\ (corrupt = 0 /\ last'.doc_id < Len(docs))
                => (last'.kind = "ok" /\ last'.doc = docs[last'.doc_id + 1])]_vars

\* two handles hold different blocks in their caches, and the last get was
\* answered correctly
ConcurrentReadSafetyWitness ==
    /\ corrupt = 0
    /\ last.op = "get" /\ last.kind = "ok" /\ last.doc = docs[last.doc_id + 1]
    /\ \E h \in Handles \ {last.h} :
          /\ readers[h].live = "open"
          /\ readers[h].current_block_offset # UsizeMax
          /\ readers[last.h].current_block_offset # UsizeMax
          /\ readers[h].current_block_offset # readers[last.h].current_block_offset

\* C6: a get(doc_id) with doc_id >= max_doc fails and returns no document.
OutOfRangeFails ==
    (last.op = "get" /\ last.doc_id >= footer.max_doc) => last.kind # "ok"

\* the one-document store: get(1) has failed
OutOfRangeFailsWitness ==
    /\ Len(docs) = 1 /\ footer.max_doc = 1
    /\ last.op = "get" /\ last.doc_id = 1 /\ last.kind # "ok"

\* C7: the empty store opens, and every get on it returns an error to the
\* caller.
EmptyStoreGetReturnsError ==
    (footer.offset = 0 /\ footer.max_doc = 0)
        => /\ last.op = "open" => readers[1].live = "open"
           /\ last.op = "get" => last.kind = "err"

(***************************************************************************)
(* SpecOpen: opening files with arbitrary footers                          *)
(***************************************************************************)

\* A body of n bytes followed by the footer (offset, max_doc).
file_of(n, offset, max_doc) ==
    [i \in 1..n |-> 7] \o le_bytes(offset, 8) \o le_bytes(max_doc, 4)

InitOpen ==
    /\ \E n \in 0..MaxBody, o \in 0..(MaxBody + FooterLen + 1), m \in 0..MaxDocs :
          /\ footer = [offset |-> o, max_doc |-> m]
          /\ \E cut \in (0..(FooterLen - 1)) \cup {n + FooterLen} :
                buffer = SubSeq(file_of(n, o, m), 1, cut)
    /\ overflow_checks = TRUE
    /\ docs = <<>>
    /\ corrupt = 0
    /\ readers = [h \in Handles |-> NoReader]
    /\ last = NoCall
    /\ srcs = <<>>
    /\ out = NoOut

\* StoreReader::from_source on the whole file
Open ==
    /\ readers[1].live = "none"
    /\ readers' = [readers EXCEPT ![1] = from_source(new_source)]
    /\ last' = [NoCall EXCEPT !.op = "open", !.h = 1,
                  !.kind = IF from_source(new_source).live = "open" THEN "ok" ELSE "panic"]
    /\ UNCHANGED <<buffer, overflow_checks, docs, corrupt, footer, srcs, out>>

\* handle h calls space_usage()
SpaceUsage(h) ==
    /\ readers[h].live = "open"
    /\ last' = [NoCall EXCEPT !.op = "space_usage", !.h = h,
                  !.data = space_usage(readers[h]).data,
                  !.index = space_usage(readers[h]).index]
    /\ UNCHANGED <<buffer, overflow_checks, docs, corrupt, footer, readers, srcs, out>>

NextOpen ==
    \/ Open
    \/ \E h \in Handles : SpaceUsage(h)

SpecOpen == InitOpen /\ [][NextOpen]_vars

\* C8: a file of length L >= 12 whose footer holds offset o <= L - 12 and
\* max_doc m opens with data = [0, o), index = [o, L - 12) and max_doc = m,
\* and space_usage reports the lengths o and L - 12 - o.
RegionCarving ==
    LET L == Len(buffer)
        r == readers[1]
    IN  (L >= FooterLen /\ footer.offset <= L - FooterLen /\ last.op # "none")
            => /\ r.live = "open"
               /\ r.data.start = 0 /\ r.data.stop = footer.offset
               /\ r.offset_index_source.start = footer.offset
               /\ r.offset_index_source.stop = L - FooterLen
               /\ r.max_doc = footer.max_doc
               /\ last.op = "space_usage"
                     => /\ last.data = footer.offset
                        /\ last.index = L - FooterLen - footer.offset
                        /\ last.data + last.index + FooterLen = L

\* space_usage has reported a non-empty data region and a non-empty index
RegionCarvingWitness ==
    /\ last.op = "space_usage" /\ last.data > 0 /\ last.index > 0
    /\ readers[1].max_doc > 0
    /\ last.data + last.index + FooterLen = Len(buffer)

\* C9: opening produces no reader when the file is shorter than the footer
\* or the footer's offset lies beyond the file's length.
OpenFailure ==
    LET L == Len(buffer)
    IN  (last.op = "open" /\ (L < FooterLen \/ footer.offset > L))
            => (readers[1].live = "dead" /\ last.kind = "panic")

\* a file of full length whose footer points past its end was refused
OpenFailureWitness ==
    /\ last.op = "open" /\ last.kind = "panic"
    /\ Len(buffer) >= FooterLen /\ footer.offset > Len(buffer)
    /\ readers[1].live = "dead"

(***************************************************************************)
(* SpecSrc: ReadOnlySource values over one buffer                          *)
(***************************************************************************)
\* The values followed: a source and a value derived from it or from an
\* earlier derived value.
Names == {1, 2}

Derived == 2

\* The cursor positions the model follows (seeks beyond are not taken).
MaxPos == MaxBuf + 1

\* A value stays in the model while its fields are at most MaxPos.
followed(s) == s.start <= MaxPos /\ s.stop <= MaxPos /\ s.pos <= MaxPos

\* adv tells the values wrapped in an AdvancingReadOnlySource.
NoValue == [live |-> "none", adv |-> FALSE, src |-> NoSource]

InitSrc ==
    /\ \E n \in 0..MaxBuf : buffer = [i \in 1..n |-> i]
    /\ overflow_checks \in BOOLEAN
    /\ srcs = [i \in Names |-> IF i = 1 THEN [live |-> "open", adv |-> FALSE, src |-> new_source]
                                        ELSE NoValue]
    /\ out = NoOut
    /\ docs = <<>>
    /\ corrupt = 0
    /\ footer = [offset |-> 0, max_doc |-> 0]
    /\ readers = <<>>
    /\ last = NoCall

\* What is left of value i after a call through &self or &mut self: the
\* value as the call's last step left it, s, also when the call panics.
after(kind, i, s) == [srcs EXCEPT ![i].src = s]

\* A call on the plain ReadOnlySource i / on the AdvancingReadOnlySource i.
plain(i) == srcs[i].live = "open" /\ ~srcs[i].adv

advancing(i) == srcs[i].live = "open" /\ srcs[i].adv

\* name j is bound to the value r.src made from value i
bind(i, j, r) ==
    IF r.kind = "ok"
    THEN [srcs EXCEPT ![j] = [live |-> "open", adv |-> srcs[i].adv, src |-> r.src]]
    ELSE after(r.kind, i, srcs[i].src)

\* name j is bound to srcs[i].slice(start, stop); rejected tells whether the
\* arguments are out of order or past the window's length.
Slice(i, j, start, stop) ==
    /\ plain(i)
    /\ LET r == slice(srcs[i].src, start, stop)
       IN  /\ followed(r.src)
           /\ srcs' = bind(i, j, r)
           /\ out' = [NoOut EXCEPT !.op = "slice", !.src = i, !.kind = r.kind,
                        !.rejected = (start > stop
                                        \/ stop > srcs[i].src.stop - srcs[i].src.start)]
    /\ UNCHANGED <<buffer, overflow_checks, docs, corrupt, footer, readers, last>>

\* name j is bound to srcs[i].slice_from(from_offset)
SliceFrom(i, j, from_offset) ==
    /\ plain(i)
    /\ LET r == slice_from(srcs[i].src, from_offset)
       IN  /\ followed(r.src)
           /\ srcs' = bind(i, j, r)
           /\ out' = [NoOut EXCEPT !.op = "slice_from", !.src = i, !.kind = r.kind]
    /\ UNCHANGED <<buffer, overflow_checks, docs, corrupt, footer, readers, last>>

\* name j is bound to srcs[i].slice_to(to_offset)
SliceTo(i, j, to_offset) ==
    /\ plain(i)
    /\ LET r == slice_to(srcs[i].src, to_offset)
       IN  /\ followed(r.src)
           /\ srcs' = bind(i, j, r)
           /\ out' = [NoOut EXCEPT !.op = "slice_to", !.src = i, !.kind = r.kind]
    /\ UNCHANGED <<buffer, overflow_checks, docs, corrupt, footer, readers, last>>

\* name j is bound to srcs[i].clone(), of a plain or an advancing source
Clone(i, j) ==
    /\ srcs[i].live = "open"
    /\ LET r == IF srcs[i].adv THEN advancing_clone(srcs[i].src)
                ELSE clone_source(srcs[i].src)
       IN  /\ followed(r.src)
           /\ srcs' = bind(i, j, r)
           /\ out' = [NoOut EXCEPT !.op = "clone", !.src = i, !.kind = r.kind]
    /\ UNCHANGED <<buffer, overflow_checks, docs, corrupt, footer, readers, last>>

\* srcs[i].split(addr), of a plain or an advancing source: the value is
\* consumed, name i is bound to the left part and name j to the right part;
\* rejected tells whether addr is past the window's length.
Split(i, j, addr) ==
    /\ srcs[i].live = "open"
    /\ i # j
    /\ LET r == split(srcs[i].src, addr)
       IN  /\ followed(r.left) /\ followed(r.right)
           /\ srcs' = IF r.kind = "ok"
                      THEN [k \in Names |->
                              IF k = i THEN [srcs[i] EXCEPT !.src = r.left]
                              ELSE [srcs[i] EXCEPT !.src = r.right]]
                      ELSE [srcs EXCEPT ![i] = [NoValue EXCEPT !.live = "dead"]]
           /\ out' = [NoOut EXCEPT !.op = "split", !.src = i, !.kind = r.kind,
                        !.rejected = (addr > srcs[i].src.stop - srcs[i].src.start)]
    /\ UNCHANGED <<buffer, overflow_checks, docs, corrupt, footer, readers, last>>

\* The window position a seek asks for: start + n, stop + n, position + n.
seek_target(s, whence, n) ==
    CASE whence = "Start" -> s.start + n
      [] whence = "End" -> s.stop + n
      [] whence = "Current" -> s.pos + n

\* srcs[i].seek(whence(n)); the offset of SeekFrom::Start is unsigned
Seek(i, whence, n) ==
    /\ plain(i)
    /\ whence = "Start" => n >= 0
    /\ LET r == seek(srcs[i].src, whence, n)
       IN  /\ followed(r.src)
           /\ srcs' = after(r.kind, i, r.src)
           /\ out' = [NoOut EXCEPT !.op = "seek", !.src = i, !.kind = r.kind,
                        !.ret = r.ret,
                        !.target = seek_target(srcs[i].src, whence, n)]
    /\ UNCHANGED <<buffer, overflow_checks, docs, corrupt, footer, readers, last>>

\* a read through one cursor shared by every value over the buffer.
ReadSharedCursor(i, buf_len) ==
    /\ plain(i)
    /\ LET r == read(srcs[i].src, buf_len)
       IN  /\ srcs' = [k \in Names |->
                          IF k = i THEN after(r.kind, i, r.src)[i]
                          ELSE IF srcs[k].live = "open"
                               THEN [srcs[k] EXCEPT !.src.pos = r.src.pos]
                               ELSE srcs[k]]
           /\ out' = [NoOut EXCEPT !.op = "read", !.src = i, !.kind = r.kind,
                        !.bytes = r.bytes]
    /\ UNCHANGED <<buffer, overflow_checks, docs, corrupt, footer, readers, last>>

\* srcs[i].read(buf) with a buffer of buf_len bytes
Read(i, buf_len) ==
    /\ plain(i)
    /\ LET r == read(srcs[i].src, buf_len)
       IN  /\ srcs' = after(r.kind, i, r.src)
           /\ out' = [NoOut EXCEPT !.op = "read", !.src = i, !.kind = r.kind,
                        !.bytes = r.bytes]
    /\ UNCHANGED <<buffer, overflow_checks, docs, corrupt, footer, readers, last>>

\* srcs[i].get(idx), of a plain source (an error) or an advancing one (a panic)
SourceGet(i, idx) ==
    /\ srcs[i].live = "open"
    /\ LET r == IF srcs[i].adv THEN advancing_get(srcs[i].src, idx)
                ELSE source_get(srcs[i].src, idx)
       IN  /\ followed(r.src)
           /\ srcs' = after(r.kind, i, r.src)
           /\ out' = [NoOut EXCEPT !.op = "get", !.src = i, !.kind = r.kind,
                        !.bytes = r.bytes, !.arg = idx]
    /\ UNCHANGED <<buffer, overflow_checks, docs, corrupt, footer, readers, last>>

\* srcs[i].read_all(), of a plain or an advancing source
ReadAll(i) ==
    /\ srcs[i].live = "open"
    /\ LET r == read_all(srcs[i].src)
       IN  /\ srcs' = after(r.kind, i, r.src)
           /\ out' = [NoOut EXCEPT !.op = "read_all", !.src = i, !.kind = r.kind,
                        !.bytes = r.bytes]
    /\ UNCHANGED <<buffer, overflow_checks, docs, corrupt, footer, readers, last>>

\* srcs[i].read_after_skip(size)
ReadAfterSkip(i, size) ==
    /\ plain(i)
    /\ LET r == read_after_skip(srcs[i].src, size)
       IN  /\ followed(r.src)
           /\ srcs' = after(r.kind, i, r.src)
           /\ out' = [NoOut EXCEPT !.op = "read_after_skip", !.src = i,
                        !.kind = r.kind, !.bytes = r.bytes, !.arg = size]
    /\ UNCHANGED <<buffer, overflow_checks, docs, corrupt, footer, readers, last>>

\* srcs[i].advance(clip_len)
Advance(i, clip_len) ==
    /\ advancing(i)
    /\ LET s == advance(srcs[i].src, clip_len)
       IN  /\ followed(s)
           /\ srcs' = after("ok", i, s)
           /\ out' = [NoOut EXCEPT !.op = "advance", !.src = i]
    /\ UNCHANGED <<buffer, overflow_checks, docs, corrupt, footer, readers, last>>

\* srcs[i].read(buf) of an advancing source, with a buffer of buf_len bytes
AdvancingRead(i, buf_len) ==
    /\ advancing(i)
    /\ LET r == advancing_read(srcs[i].src, buf_len)
       IN  /\ srcs' = after(r.kind, i, r.src)
           /\ out' = [NoOut EXCEPT !.op = "advancing_read", !.src = i,
                        !.kind = r.kind, !.bytes = r.bytes]
    /\ UNCHANGED <<buffer, overflow_checks, docs, corrupt, footer, readers, last>>

\* srcs[i].read_without_advancing(buf) with a buffer of buf_len bytes
ReadWithoutAdvancing(i, buf_len) ==
    /\ advancing(i)
    /\ LET r == read_without_advancing(srcs[i].src, buf_len)
       IN  /\ followed(r.src)
           /\ srcs' = after(r.kind, i, r.src)
           /\ out' = [NoOut EXCEPT !.op = "read_without_advancing", !.src = i,
                        !.kind = r.kind, !.bytes = r.bytes, !.arg = buf_len]
    /\ UNCHANGED <<buffer, overflow_checks, docs, corrupt, footer, readers, last>>

NextSrc ==
    \/ \E i \in Names, start \in 0..MaxBuf, stop \in 0..MaxBuf :
          Slice(i, Derived, start, stop)
    \/ \E i \in Names, from_offset \in 0..MaxBuf : SliceFrom(i, Derived, from_offset)
    \/ \E i \in Names, to_offset \in 0..MaxBuf : SliceTo(i, Derived, to_offset)
    \/ \E i \in Names : Clone(i, Derived)
    \/ \E i \in Names, addr \in 0..MaxBuf : Split(i, Derived, addr)
    \/ \E i \in Names, whence \in {"Start", "End", "Current"}, n \in (-MaxBuf)..MaxBuf :
          Seek(i, whence, n)
    \/ \E i \in Names, buf_len \in 0..MaxBuf : Read(i, buf_len)
    \/ \E i \in Names, idx \in 0..MaxBuf : SourceGet(i, idx)
    \/ \E i \in Names : ReadAll(i)
    \/ \E i \in Names, size \in 0..MaxBuf : ReadAfterSkip(i, size)

SpecSrc == InitSrc /\ [][NextSrc]_vars

(***************************************************************************)
(* SpecAdv: AdvancingReadOnlySource values over one buffer                 *)
(***************************************************************************)
\* The longest buffer handed to an AdvancingReadOnlySource.
MaxAdvBuf == 3

\* AdvancingReadOnlySource::from(Vec<u8>)
InitAdv ==
    /\ \E n \in 0..MaxAdvBuf : buffer = [i \in 1..n |-> i]
    /\ overflow_checks \in BOOLEAN
    /\ srcs = [i \in Names |-> IF i = 1 THEN [live |-> "open", adv |-> TRUE, src |-> new_source]
                                        ELSE NoValue]
    /\ out = NoOut
    /\ docs = <<>>
    /\ corrupt = 0
    /\ footer = [offset |-> 0, max_doc |-> 0]
    /\ readers = <<>>
    /\ last = NoCall

NextAdv ==
    \/ \E i \in Names : Clone(i, Derived)
    \/ \E i \in Names, addr \in 0..MaxBuf : Split(i, Derived, addr)
    \/ \E i \in Names, idx \in 0..MaxBuf : SourceGet(i, idx)
    \/ \E i \in Names : ReadAll(i)
    \/ \E i \in Names, clip_len \in 0..MaxBuf : Advance(i, clip_len)
    \/ \E i \in Names, buf_len \in 0..MaxBuf : AdvancingRead(i, buf_len)
    \/ \E i \in Names, buf_len \in 0..MaxBuf : ReadWithoutAdvancing(i, buf_len)

SpecAdv == InitAdv /\ [][NextAdv]_vars

(***************************************************************************)
(* SpecClone: clones and slices of plain and advancing sources, read,      *)
(* sought and advanced                                                     *)
(***************************************************************************)
\* AdvancingReadOnlySource::from(srcs[i]) takes the place of srcs[i]
Wrap(i) ==
    /\ plain(i)
    /\ srcs' = [srcs EXCEPT ![i].adv = TRUE]
    /\ out' = [NoOut EXCEPT !.op = "from", !.src = i]
    /\ UNCHANGED <<buffer, overflow_checks, docs, corrupt, footer, readers, last>>

NextClone ==
    \/ \E i \in Names : Clone(i, Derived)
    \/ \E i \in Names, start \in 0..MaxBuf, stop \in 0..MaxBuf :
          Slice(i, Derived, start, stop)
    \/ \E i \in Names, whence \in {"Start", "End", "Current"}, n \in (-MaxBuf)..MaxBuf :
          Seek(i, whence, n)
    \/ \E i \in Names, buf_len \in 0..MaxBuf : Read(i, buf_len)
    \/ \E i \in Names : Wrap(i)
    \/ \E i \in Names, clip_len \in 0..MaxBuf : Advance(i, clip_len)
    \/ \E i \in Names, buf_len \in 0..MaxBuf : AdvancingRead(i, buf_len)

SpecClone == InitSrc /\ [][NextClone]_vars

\* C10: every byte a read returns is a byte of the window [start, stop) of
\* the source it was called on.
WindowConfinement ==
    (out.op = "read" /\ out.kind = "ok")
        => LET s == srcs[out.src].src
           IN  \A k \in 1..Len(out.bytes) :
                  \E p \in (s.start + 1)..s.stop : buffer[p] = out.bytes[k]

(***************************************************************************)
(* SpecSlice: a slice of a slice of a source against the slice of the      *)
(* source itself                                                           *)
(***************************************************************************)
\* The longest buffer and the largest argument of a slice.
MaxSliceBuf == 3

\* srcs holds the source, the arguments a, b, c, d, and the three slices:
\* outer = source.slice(a, d), inner = outer.slice(b - a, c - a) and
\* direct = source.slice(b, c).
InitSlice ==
    /\ \E n \in 0..MaxSliceBuf : buffer = [i \in 1..n |-> i]
    /\ overflow_checks \in BOOLEAN
    /\ \E x \in 0..MaxSliceBuf, y \in 0..MaxSliceBuf, a \in 0..MaxSliceBuf,
          b \in 0..MaxSliceBuf, c \in 0..MaxSliceBuf, d \in 0..MaxSliceBuf :
          /\ slice(new_source, x, y).kind = "ok"
          /\ a <= b /\ a <= c
          /\ srcs = [a |-> a, b |-> b, c |-> c, d |-> d,
                     source |-> [NoValue EXCEPT !.live = "open",
                                                !.src = slice(new_source, x, y).src],
                     outer |-> NoValue, inner |-> NoValue, direct |-> NoValue]
    /\ out = NoOut
    /\ docs = <<>>
    /\ corrupt = 0
    /\ footer = [offset |-> 0, max_doc |-> 0]
    /\ readers = <<>>
    /\ last = NoCall

\* What a slice of value v leaves: the new value, or v dropped by the panic.
sliced(r) == [NoValue EXCEPT !.live = IF r.kind = "ok" THEN "open" ELSE "dead",
                             !.src = r.src]

\* outer = source.slice(a, d)
SliceOuter ==
    /\ srcs.source.live = "open" /\ srcs.outer.live = "none"
    /\ LET r == slice(srcs.source.src, srcs.a, srcs.d)
       IN  /\ srcs' = [srcs EXCEPT !.outer = sliced(r)]
           /\ out' = [NoOut EXCEPT !.op = "slice", !.kind = r.kind]
    /\ UNCHANGED <<buffer, overflow_checks, docs, corrupt, footer, readers, last>>

\* inner = outer.slice(b - a, c - a)
SliceInner ==
    /\ srcs.outer.live = "open" /\ srcs.inner.live = "none"
    /\ LET r == slice(srcs.outer.src, srcs.b - srcs.a, srcs.c - srcs.a)
       IN  /\ srcs' = [srcs EXCEPT !.inner = sliced(r)]
           /\ out' = [NoOut EXCEPT !.op = "slice", !.kind = r.kind]
    /\ UNCHANGED <<buffer, overflow_checks, docs, corrupt, footer, readers, last>>

\* direct = source.slice(b, c)
SliceDirect ==
    /\ srcs.source.live = "open" /\ srcs.direct.live = "none"
    /\ LET r == slice(srcs.source.src, srcs.b, srcs.c)
       IN  /\ srcs' = [srcs EXCEPT !.direct = sliced(r)]
           /\ out' = [NoOut EXCEPT !.op = "slice", !.kind = r.kind]
    /\ UNCHANGED <<buffer, overflow_checks, docs, corrupt, footer, readers, last>>

NextSlice == SliceOuter \/ SliceInner \/ SliceDirect

SpecSlice == InitSlice /\ [][NextSlice]_vars

\* C14: for 0 <= a <= b <= c <= d <= len(S), S.slice(a, d).slice(b - a, c - a)
\* and S.slice(b, c) are both made and have the same window and the same
\* bytes, of length c - b = stop - start.
SliceComposition ==
    (srcs.a <= srcs.b /\ srcs.b <= srcs.c /\ srcs.c <= srcs.d
       /\ srcs.d <= len(srcs.source.src))
        => /\ srcs.outer.live # "dead" /\ srcs.inner.live # "dead"
           /\ srcs.direct.live # "dead"
           /\ (srcs.inner.live = "open" /\ srcs.direct.live = "open")
                 => /\ srcs.inner.src.start = srcs.direct.src.start
                    /\ srcs.inner.src.stop = srcs.direct.src.stop
                    /\ as_slice(srcs.inner.src) = as_slice(srcs.direct.src)
                    /\ len(srcs.inner.src) = srcs.c - srcs.b
                    /\ len(srcs.inner.src) = srcs.inner.src.stop - srcs.inner.src.start

\* Both slices are made, of a source that is itself a slice, with a > 0 and
\* a window of at least one byte.
SliceCompositionWitness ==
    /\ srcs.inner.live = "open" /\ srcs.direct.live = "open"
    /\ srcs.source.src.start > 0
    /\ 0 < srcs.a /\ srcs.a <= srcs.b /\ srcs.b < srcs.c /\ srcs.c <= srcs.d
    /\ srcs.d <= len(srcs.source.src)

\* C11: a seek that asks for a position of the window (Start(n) with
\* 0 <= n <= len, End(n) with -len <= n <= 0, Current(n)) leaves the cursor
\* at that position (start + n, stop + n, position + n), and the next read
\* returns the window's bytes from there.
SeekTranslation ==
    (out.op = "seek" /\ out.kind = "ok")
        => LET s == srcs[out.src].src
               r == read(s, MaxBuf)
           IN  (s.start <= out.target /\ out.target <= s.stop)
                  => /\ s.pos = out.target
                     /\ r.kind = "ok"
                     /\ r.bytes = SubSeq(buffer, out.target + 1, s.stop)

\* C12: a seek to a position before start or past stop fails, and the
\* cursor of every value is within its window: start <= pos <= stop.
SeekBounds ==
    /\ (out.op = "seek" /\ out.kind = "ok")
          => LET s == srcs[out.src].src
             IN  s.start <= out.target /\ out.target <= s.stop
    /\ \A i \in Names :
          srcs[i].live = "open"
             => srcs[i].src.start <= srcs[i].src.pos /\ srcs[i].src.pos <= srcs[i].src.stop

\* C13: get(idx) with idx < len returns the byte at window offset idx and
\* leaves the cursor position (and the window) as they were.
NonDisturbingGet ==
    [][\A i \in Names :
          (out'.op = "get" /\ out'.src = i /\ srcs[i].live = "open"
             /\ srcs[i].src.start + out'.arg < srcs[i].src.stop)
             => /\ out'.kind = "ok"
                /\ out'.bytes = <<buffer[srcs[i].src.start + out'.arg + 1]>>
                /\ srcs'[i] = srcs[i]]_vars

\* C15: a read, a seek or an advance on one value leaves every other
\* value's start, stop and cursor position as they were, and so does
\* making a clone or a slice of a value for the value it is made from.
CursorIndependence ==
    [][\A i \in Names :
          /\ (out'.op \in {"read", "seek", "advance", "advancing_read"}
                /\ out'.src # i)
                => srcs'[i] = srcs[i]
          /\ (out'.op \in {"clone", "slice"}
                /\ out'.kind = "ok" /\ out'.src = i /\ i # Derived)
                => srcs'[i] = srcs[i]]_vars

\* A read on a clone has moved the clone's cursor away from the original's.
CursorIndependenceWitness ==
    /\ out.op = "read" /\ out.src = Derived /\ out.bytes # <<>>
    /\ srcs[1].live = "open" /\ srcs[Derived].live = "open"
    /\ srcs[1].src.start = srcs[Derived].src.start
    /\ srcs[1].src.stop = srcs[Derived].src.stop
    /\ srcs[1].src.pos = srcs[1].src.start
    /\ srcs[Derived].src.pos = srcs[Derived].src.stop

\* C17: read_all returns the bytes from the cursor position to stop, leaves
\* the cursor at the window start and the window as it was, so that a
\* second read_all returns the whole window.
SnapshotRead ==
    [][\A i \in Names :
          (out'.op = "read_all" /\ out'.src = i /\ out'.kind = "ok"
             /\ srcs[i].live = "open")
             => /\ out'.bytes = SubSeq(buffer, srcs[i].src.pos + 1, srcs[i].src.stop)
                /\ srcs'[i].src = [srcs[i].src EXCEPT !.pos = srcs[i].src.start]
                /\ read_all(srcs'[i].src).bytes
                      = SubSeq(buffer, srcs[i].src.start + 1, srcs[i].src.stop)]_vars

\* C16: a read of an AdvancingReadOnlySource that returns n bytes returns
\* the first n bytes of the window, moves start forward by n and leaves the
\* cursor at the new start (so successive reads return consecutive bytes,
\* none twice); when the window is consumed is_empty() is true and a
\* further read returns 0 bytes.
SelfConsumingReads ==
    [][\A i \in Names :
          (out'.op = "advancing_read" /\ out'.src = i /\ out'.kind = "ok"
             /\ srcs[i].live = "open")
             => LET s == srcs[i].src
                    n == Len(out'.bytes)
                    t == srcs'[i].src
                IN  /\ out'.bytes = SubSeq(buffer, s.start + 1, s.start + n)
                    /\ t = [start |-> s.start + n, stop |-> s.stop, pos |-> s.start + n]
                    /\ (s.start + n = s.stop)
                          => /\ is_empty(t)
                             /\ advancing_read(t, MaxBuf).bytes = <<>>]_vars

\* C19: every value has start <= stop <= len(buffer), and a slice or split
\* whose arguments are out of order or past the window's length is rejected.
WindowBounds ==
    /\ \A i \in Names :
          srcs[i].live = "open"
             => /\ srcs[i].src.start <= srcs[i].src.stop
                /\ srcs[i].src.stop <= Len(buffer)
    /\ (out.op \in {"slice", "split"} /\ out.rejected) => out.kind = "panic"

\* C20: read_without_advancing returns the bytes the next read returns and
\* leaves start, stop and the cursor as they were.
PeekWithoutConsuming ==
    [][\A i \in Names :
          (out'.op = "read_without_advancing" /\ out'.src = i /\ out'.kind = "ok"
             /\ srcs[i].live = "open")
             => /\ srcs'[i] = srcs[i]
                /\ advancing_read(srcs'[i].src, out'.arg).bytes = out'.bytes]_vars

\* C18 as stated: a get whose block offset differs from current_block_offset
\* calls the decompressor exactly once, whatever the outcome of the get.
SingleSlotCacheStepsAsStated ==
    [][\A h \in Handles :
          (last'.op = "get" /\ last'.h = h /\ readers[h].live = "open"
             /\ last'.block # readers[h].current_block_offset)
             => last'.decompressions = 1]_vars

\* C18, amended: a get whose block offset is current_block_offset calls the
\* decompressor not at all and leaves current_block and current_block_offset
\* as they were; a get whose block offset differs calls it at most once,
\* exactly once when the get returns (Ok or Err), not at all when
\* compressed_block panics before the decompressor is reached; and when the
\* get succeeds current_block_offset is that offset.
SingleSlotCacheSteps ==
    [][\A h \in Handles :
          (last'.op = "get" /\ last'.h = h /\ readers[h].live = "open")
             => LET r == readers[h]
                    t == readers'[h]
                IN  /\ (last'.block = r.current_block_offset)
                          => /\ last'.decompressions = 0
                             /\ (t.live = "open")
                                   => /\ t.current_block = r.current_block
                                      /\ t.current_block_offset = r.current_block_offset
                    /\ (last'.block # r.current_block_offset)
                          => last'.decompressions \in {0, 1}
                    /\ (last'.block # r.current_block_offset /\ last'.kind # "panic")
                          => last'.decompressions = 1
                    /\ (last'.block # r.current_block_offset
                          /\ last'.decompressions = 0)
                          => /\ last'.kind = "panic"
                             /\ (t.live = "open")
                                   => /\ t.current_block = <<>>
                                      /\ t.current_block_offset = r.current_block_offset
                    /\ (last'.block # r.current_block_offset /\ last'.kind = "ok")
                          => t.current_block_offset = last'.block]_vars

\* A successful get has decompressed its block into a slot that held
\* another block, as each get of a handle alternating between two blocks.
SingleSlotCacheStepsWitness ==
    /\ last.op = "get" /\ last.kind = "ok"
    /\ last.decompressions = 1 /\ last.evicted
    /\ readers[last.h].current_block_offset = last.block

====
